---- MODULE Spec2Model ----
(***************************************************************************)
(* Model of experiments/wikicat/__init__.py: the WikicatEnvironment        *)
(* state transition (get_action_results), the liveness flag read from the  *)
(* observations (get_whether_alive) and the per-session reward             *)
(* (get_reward).                                                           *)
(*                                                                         *)
(* One batch row is modelled: every tensor operation of the class acts on  *)
(* each batch row independently, and get_reward runs on the single row     *)
(* batch_i.  Vectors over actions are functions over 0..n-1, as in the     *)
(* code; sequences over time are 1-based, so tick t of the code is index   *)
(* t+1 here.  Rewards are integers in units of 1/2, so that the default    *)
(* repeated_poll of -0.5 is -1.                                            *)
(***************************************************************************)
EXTENDS Integers, Sequences, FiniteSets

\* ---------------------------------------------------------------- bounds
NAttr == 1          \* columns of the loaded attribute data
NCat == 1           \* columns of the loaded category data
MaxLen == 4         \* longest session (number of ticks)
MaxAnyLen == 2      \* longest session that starts from an arbitrary state

VARIABLES attributes, categories, rw, phase, last_state,
          session_states, session_actions, observations, is_alive, rewards

vars == <<attributes, categories, rw, phase, last_state,
          session_states, session_actions, observations, is_alive,
          rewards>>

\* ------------------------------------------------------- reward tables
\* default_rewards, in units of 1/2
default_rewards ==
    [attribute_positive |-> 2, attribute_negative |-> -2,
     category_positive |-> 6, category_negative |-> -2,
     repeated_poll |-> -1, end_action |-> 0,
     end_action_if_no_category_predicted |-> 0]

\* a user-supplied table (the rewards parameter) with pairwise distinct,
\* nonzero entries
custom_rewards ==
    [attribute_positive |-> 4, attribute_negative |-> -3,
     category_positive |-> 7, category_negative |-> -5,
     repeated_poll |-> -2, end_action |-> 1,
     end_action_if_no_category_predicted |-> -6]

RewardTables == {default_rewards, custom_rewards}

\* ------------------------------------------------------------- helpers
Bit == {0, 1}

\* number of columns of a one-row matrix (shape[1])
Width(row) == Cardinality(DOMAIN row)

\* np.zeros([1, n]) as one row
zeros(n) == [i \in 0..(n - 1) |-> 0]

\* T.eq on scalars: 1 when equal, else 0
eq(x, y) == IF x = y THEN 1 ELSE 0

\* ------------------------------------------------------------ __init__
\* self.joint_data: attributes, then categories, then the end_action column
joint_data ==
    [i \in 0..(Width(attributes) + Width(categories)) |->
        IF i < Width(attributes) THEN attributes[i]
        ELSE IF i < Width(attributes) + Width(categories)
             THEN categories[i - Width(attributes)]
             ELSE 0]

\* variant: the category ids are not offset by the attribute columns
category_action_ids_no_offset == 0..(Width(categories) - 1)

\* self.category_action_ids
category_action_ids ==
    Width(attributes)..(Width(attributes) + Width(categories) - 1)

\* self.end_action_id
end_action_id == Width(joint_data) - 1

\* state_size property
state_size == Width(joint_data)

\* the action indices
Actions == 0..(state_size - 1)

\* ---------------------------------------------------- get_whether_alive
\* variant: column 0 (the response) is read instead of column 1
get_whether_alive_column0(observations_tensor) ==
    [t \in 1..Len(observations_tensor) |-> eq(observations_tensor[t][1], 0)]

\* an observation is <<response, terminated flag, one-hot action>>;
\* observations_tensor[:,:,1] is the second component
get_whether_alive(observations_tensor) ==
    [t \in 1..Len(observations_tensor) |-> eq(observations_tensor[t][2], 0)]

\* --------------------------------------------------- get_action_results
\* variant: the end flag is looked up at column 0
session_active_first_column(state) == eq(state[0], 0)

session_active(state) == eq(state[end_action_id], 0)

\* variant: inc_subtensor in place of set_subtensor
state_after_action_inc(state, action) ==
    [state EXCEPT ![action] = state[action] + 1]

state_after_action(state, action) == [state EXCEPT ![action] = 1]

\* variant: the switch on session_active is dropped
new_state_no_switch(state, action) == state_after_action(state, action)

\* variant: the two branches of the switch are exchanged
new_state_switch_exchanged(state, action) ==
    IF session_active(state) # 0 THEN state
    ELSE state_after_action(state, action)

new_state(state, action) ==
    IF session_active(state) # 0 THEN state_after_action(state, action)
    ELSE state

to_one_hot(action, n) == [i \in 0..(n - 1) |-> IF i = action THEN 1 ELSE 0]

\* variant: the terminated flag is read from the state after the action
observation_flag_after(state, action) ==
    << joint_data[action],
       eq(session_active(new_state(state, action)), 0),
       to_one_hot(action, Width(joint_data)) >>

observation(state, action) ==
    << joint_data[action],
       eq(session_active(state), 0),
       to_one_hot(action, Width(joint_data)) >>

get_action_results(state, action) ==
    << new_state(state, action), observation(state, action) >>

\* ----------------------------------------------------------- get_reward
has_tried_already(states, actions) ==
    [t \in 1..Len(actions) |-> states[t][actions[t]]]

session_is_active(states) ==
    [t \in 1..Len(states) |-> eq(states[t][end_action_id], 0)]

\* variant: the last entry is not forced to 1
has_finished_now_not_forced(actions) ==
    [t \in 1..Len(actions) |-> eq(actions[t], end_action_id)]

\* T.eq(session_actions, end_action_id) with the last entry set to 1
has_finished_now(actions) ==
    [t \in 1..Len(actions) |->
        IF t = Len(actions) THEN 1 ELSE eq(actions[t], end_action_id)]

\* variant: the last nonzero entry, nonzero()[0][-1], is taken
end_tick_last(actions) == Len(actions)

\* has_finished_now.nonzero()[0][0], as a 1-based index
end_tick(actions) ==
    CHOOSE t \in 1..Len(actions) :
        /\ has_finished_now(actions)[t] # 0
        /\ \A u \in 1..(t - 1) : has_finished_now(actions)[u] = 0

in1d(x, ids) == IF x \in ids THEN 1 ELSE 0

\* variant: an action counts as categorical only when its response is 1
action_is_categorical_if_positive(actions) ==
    [t \in 1..Len(actions) |->
        in1d(actions[t], category_action_ids) * joint_data[actions[t]]]

action_is_categorical(actions) ==
    [t \in 1..Len(actions) |-> in1d(actions[t], category_action_ids)]

\* variant: T.any over the whole trajectory instead of [:end_tick]
at_least_one_categorical_action_anywhere(actions) ==
    \E t \in 1..Len(actions) : action_is_categorical(actions)[t] # 0

\* T.any(action_is_categorical[:end_tick])
at_least_one_categorical_action(actions) ==
    \E t \in 1..(end_tick(actions) - 1) : action_is_categorical(actions)[t] # 0

response(actions) == [t \in 1..Len(actions) |-> joint_data[actions[t]]]

\* variant: the category and attribute branches of the switch are exchanged
reward_for_intermediate_action_swapped(actions) ==
    [t \in 1..Len(actions) |->
        IF action_is_categorical(actions)[t] # 0
        THEN response(actions)[t] * (rw.attribute_positive - rw.attribute_negative)
             + rw.attribute_negative
        ELSE response(actions)[t] * (rw.category_positive - rw.category_negative)
             + rw.category_negative]

reward_for_intermediate_action(actions) ==
    [t \in 1..Len(actions) |->
        IF action_is_categorical(actions)[t] # 0
        THEN response(actions)[t] * (rw.category_positive - rw.category_negative)
             + rw.category_negative
        ELSE response(actions)[t] * (rw.attribute_positive - rw.attribute_negative)
             + rw.attribute_negative]

\* variant: the branches of the switch on has_tried_already are exchanged
reward_for_intermediate_action_first_time_swapped(states, actions) ==
    [t \in 1..Len(actions) |->
        IF has_tried_already(states, actions)[t] # 0
        THEN reward_for_intermediate_action(actions)[t]
        ELSE rw.repeated_poll]

reward_for_intermediate_action_first_time(states, actions) ==
    [t \in 1..Len(actions) |->
        IF has_tried_already(states, actions)[t] # 0
        THEN rw.repeated_poll
        ELSE reward_for_intermediate_action(actions)[t]]

\* variant: the two rewards of the switch are exchanged
reward_for_end_action_exchanged(actions) ==
    IF at_least_one_categorical_action(actions)
    THEN rw.end_action_if_no_category_predicted
    ELSE rw.end_action

reward_for_end_action(actions) ==
    IF at_least_one_categorical_action(actions)
    THEN rw.end_action
    ELSE rw.end_action_if_no_category_predicted

reward_for_action(states, actions) ==
    [t \in 1..Len(actions) |->
        IF has_finished_now(actions)[t] # 0
        THEN reward_for_end_action(actions)
        ELSE reward_for_intermediate_action_first_time(states, actions)[t]]

\* variant: rewards are not zeroed once the session is over
final_reward_no_switch(states, actions) == reward_for_action(states, actions)

final_reward(states, actions) ==
    [t \in 1..Len(actions) |->
        IF session_is_active(states)[t] # 0
        THEN reward_for_action(states, actions)[t]
        ELSE 0]

get_reward(states, actions) == final_reward(states, actions)

\* -------------------------------------------------------------- actions
\* after WikicatEnvironment(rewards): dummy one-column data, no session
Init ==
    /\ attributes = zeros(1)
    /\ categories = zeros(1)
    /\ rw \in RewardTables
    /\ phase = "constructed"
    /\ last_state = zeros(3)
    /\ session_states = << >>
    /\ session_actions = << >>
    /\ observations = << >>
    /\ is_alive = << >>
    /\ rewards = << >>

load_data_batch(attrs_batch, categories_batch) ==
    /\ phase = "constructed"
    /\ attributes' = attrs_batch
    /\ categories' = categories_batch
    /\ phase' = "loaded"
    /\ UNCHANGED <<rw, last_state, session_states, session_actions,
                   observations, is_alive, rewards>>

\* the session loop hands get_action_results its first state
StartSession(initial_state) ==
    /\ phase = "loaded"
    /\ last_state' = initial_state
    /\ phase' = "session"
    /\ UNCHANGED <<attributes, categories, rw, session_states,
                   session_actions, observations, is_alive, rewards>>

\* one tick of the session: the agent commits an action, the environment
\* answers, and the loop reads get_whether_alive off the observations
Step(action) ==
    /\ phase = "session"
    /\ Len(session_actions) < MaxLen
    /\ last_state' = get_action_results(last_state, action)[1]
    /\ observations' =
           Append(observations, get_action_results(last_state, action)[2])
    /\ is_alive' = get_whether_alive(
           Append(observations, get_action_results(last_state, action)[2]))
    /\ session_states' = Append(session_states, last_state)
    /\ session_actions' = Append(session_actions, action)
    /\ UNCHANGED <<attributes, categories, rw, phase, rewards>>

\* the objective is evaluated on the finished session
GetReward ==
    /\ phase = "session"
    /\ Len(session_actions) >= 1
    /\ rewards' = get_reward(session_states, session_actions)
    /\ phase' = "done"
    /\ UNCHANGED <<attributes, categories, rw, last_state, session_states,
                   session_actions, observations, is_alive>>

Batches(n) == [0..(n - 1) -> Bit]

Next ==
    \/ \E a \in Batches(NAttr), c \in Batches(NCat) : load_data_batch(a, c)
    \/ StartSession(zeros(state_size))
    \/ \E action \in Actions : Step(action)
    \/ GetReward

Spec == Init /\ [][Next]_vars

\* get_action_results started from any state vector: the transition alone,
\* for sessions of at most MaxAnyLen ticks
NextAnyState ==
    \/ \E a \in Batches(NAttr), c \in Batches(NCat) : load_data_batch(a, c)
    \/ \E s \in Batches(state_size) : StartSession(s)
    \/ \E action \in Actions :
          Len(session_actions) < MaxAnyLen /\ Step(action)

SpecAnyState == Init /\ [][NextAnyState]_vars


\* the rewarded session goes on: get_reward is a function of the trajectory
\* handed to it, so it can be evaluated on a trajectory and again on an
\* extension of it; rewards keeps the first evaluation until the second
Resume ==
    /\ phase = "done"
    /\ Len(session_actions) < MaxLen
    /\ phase' = "session"
    /\ UNCHANGED <<attributes, categories, rw, last_state, session_states,
                   session_actions, observations, is_alive, rewards>>

NextExtended ==
    \/ \E a \in Batches(NAttr), c \in Batches(NCat) : load_data_batch(a, c)
    \/ StartSession(zeros(state_size))
    \/ \E action \in Actions : Step(action)
    \/ GetReward
    \/ Resume

SpecExtended == Init /\ [][NextExtended]_vars

\* ------------------------------------------------- notation of the claims
Ticks == 1..Len(session_actions)

\* the state get_action_results returned at tick t
Returned(t) == IF t < Len(session_states) THEN session_states[t + 1]
               ELSE last_state

\* the end action was committed at some tick before t
EndedBefore(t) == \E u \in 1..(t - 1) : session_actions[u] = end_action_id

\* the action of tick t was committed at some tick before t
TriedBefore(t) == \E u \in 1..(t - 1) : session_actions[u] = session_actions[t]

\* a categorical action was committed at some tick before t
CategoryBefore(t) ==
    \E u \in 1..(t - 1) : session_actions[u] \in category_action_ids

\* ground truth of an action, read from the loaded data
GroundTruth(a) == IF a < NAttr THEN attributes[a]
                  ELSE IF a < NAttr + NCat THEN categories[a - NAttr]
                  ELSE 0

\* ---------------------------------------------------------------- C1
\* C1: at every tick, if the end flag of the incoming state is 1 the
\* returned state equals the incoming state; otherwise the returned state
\* has the bit of the action equal to 1 and every other bit unchanged.
C1_ActionResultState ==
    \A t \in Ticks :
        LET s == session_states[t]
            a == session_actions[t]
            r == Returned(t)
        IN  /\ DOMAIN r = DOMAIN s
            /\ IF s[NAttr + NCat] = 1
               THEN r = s
               ELSE /\ r[a] = 1
                    /\ \A i \in DOMAIN s : i # a => r[i] = s[i]

\* both cases happened: an ended state was left alone although the bit of
\* the action was 0, and an active state got a new bit
C1_Witness ==
    /\ \E t \in Ticks :
          /\ session_states[t][NAttr + NCat] = 1
          /\ session_states[t][session_actions[t]] = 0
    /\ \E t \in Ticks :
          /\ session_states[t][NAttr + NCat] = 0
          /\ session_states[t][session_actions[t]] = 0
          /\ \E i \in DOMAIN last_state : i # session_actions[t]
                                          /\ session_states[t][i] = 1

\* ---------------------------------------------------------------- C2
\* C2: within a session, once the end flag of the state is 1 no step
\* changes any bit of the state, so the flag stays 1.
C2_EndFlagAbsorbing ==
    [][(phase = "session" /\ last_state[end_action_id] = 1)
         => (last_state' = last_state)]_vars

\* after the end action, a non-end action and another end action were
\* committed
C2_Witness ==
    \E t, u, v \in Ticks :
        /\ t < u /\ t < v
        /\ session_actions[t] = end_action_id
        /\ session_actions[u] # end_action_id
        /\ session_states[u][session_actions[u]] = 0
        /\ session_actions[v] = end_action_id
        /\ last_state[end_action_id] = 1

\* ---------------------------------------------------------------- C3
\* C3: every tick after the first end action has reward 0, whatever its
\* action, the ground truth and the reward table.
C3_ZeroAfterEnd ==
    phase = "done" =>
        \A t \in Ticks : EndedBefore(t) => rewards[t] = 0

\* rewards were computed, under the table without zero entries, for a
\* session with a categorical action of ground truth 1 and another end
\* action after the first end action
C3_Witness ==
    /\ phase = "done"
    /\ rw = custom_rewards
    /\ \E t, u \in Ticks :
          /\ EndedBefore(t) /\ EndedBefore(u)
          /\ session_actions[t] \in category_action_ids
          /\ GroundTruth(session_actions[t]) = 1
          /\ session_actions[u] = end_action_id

\* ---------------------------------------------------------------- C4
\* C4 as stated: every tick whose action was committed at an earlier tick
\* of the session is rewarded repeated_poll.
C4_RepeatAlwaysPenalised ==
    phase = "done" =>
        \A t \in Ticks : TriedBefore(t) => rewards[t] = rw.repeated_poll

\* C4 as amended: every tick that is not the last tick of the trajectory,
\* with no end action at or before it, whose action was committed at an
\* earlier tick, is rewarded repeated_poll whatever the ground truth.
C4_RepeatPenalisedBeforeEnd ==
    phase = "done" =>
        \A t \in Ticks :
            ( /\ t < Len(session_actions)
              /\ ~EndedBefore(t + 1)
              /\ TriedBefore(t) )
            => rewards[t] = rw.repeated_poll

\* a repeated categorical action of ground truth 1 was rewarded, and not
\* with category_positive, before the end of the session
C4_Witness ==
    /\ phase = "done"
    /\ rw = custom_rewards
    /\ \E t \in Ticks :
          /\ t < Len(session_actions)
          /\ ~EndedBefore(t + 1)
          /\ TriedBefore(t)
          /\ session_actions[t] \in category_action_ids
          /\ GroundTruth(session_actions[t]) = 1
          /\ rewards[t] # rw.category_positive

\* ---------------------------------------------------------------- C5
\* all actions of the session are pairwise different
UniqueActions ==
    \A t, u \in Ticks : t # u => session_actions[t] # session_actions[u]

\* the reward of a first-time categorical action of the given ground truth
CategoryReward(a) == IF GroundTruth(a) = 1 THEN rw.category_positive
                     ELSE rw.category_negative

\* C5 as stated: in a session of pairwise different actions every
\* categorical action is rewarded category_positive when its ground truth
\* is 1 and category_negative when it is 0.
C5_UniqueCategoryReward ==
    (phase = "done" /\ UniqueActions) =>
        \A t \in Ticks :
            session_actions[t] \in NAttr..(NAttr + NCat - 1)
            => rewards[t] = CategoryReward(session_actions[t])

\* C5 as amended: the same for the categorical actions committed before
\* the last tick of the trajectory and before any end action.
C5_UniqueCategoryRewardBeforeEnd ==
    (phase = "done" /\ UniqueActions) =>
        \A t \in Ticks :
            ( /\ session_actions[t] \in NAttr..(NAttr + NCat - 1)
              /\ t < Len(session_actions)
              /\ ~EndedBefore(t) )
            => rewards[t] = CategoryReward(session_actions[t])

\* a session of pairwise different actions was rewarded in which a
\* categorical action of ground truth 1 came before the last tick
C5_Witness ==
    /\ phase = "done"
    /\ rw = custom_rewards
    /\ UniqueActions
    /\ \E t \in Ticks :
          /\ t < Len(session_actions)
          /\ ~EndedBefore(t)
          /\ session_actions[t] \in NAttr..(NAttr + NCat - 1)
          /\ GroundTruth(session_actions[t]) = 1

\* ---------------------------------------------------------------- C6
\* C6: the tick at which the end action is committed in a still active
\* session is rewarded end_action when a categorical action was committed
\* earlier in the session, and end_action_if_no_category_predicted
\* otherwise.
C6_EndActionReward ==
    phase = "done" =>
        \A t \in Ticks :
            ( /\ session_actions[t] = NAttr + NCat
              /\ session_states[t][NAttr + NCat] = 0 )
            => rewards[t] = IF CategoryBefore(t) THEN rw.end_action
                            ELSE rw.end_action_if_no_category_predicted

\* the end action was rewarded in a session whose only categorical action
\* came after it
C6_Witness ==
    /\ phase = "done"
    /\ rw = custom_rewards
    /\ \E t \in Ticks :
          /\ session_actions[t] = NAttr + NCat
          /\ session_states[t][NAttr + NCat] = 0
          /\ ~CategoryBefore(t)
          /\ \E u \in Ticks : u > t /\ session_actions[u] \in category_action_ids

\* ---------------------------------------------------------------- C7
\* C7 as stated: committing the same action twice in a row returns the
\* same state the second time, and the bit of the action is 1 in it.
C7_IdempotentBitSet ==
    \A t \in Ticks :
        (t < Len(session_actions) /\ session_actions[t + 1] = session_actions[t])
        => /\ Returned(t + 1) = Returned(t)
           /\ Returned(t + 1)[session_actions[t]] = 1

\* C7 as amended: committing the same action twice in a row returns the
\* same state the second time; the bit of the action is 1 in it when the
\* first of the two states was still active or had the bit set already,
\* and keeps its value when the end flag of that state was 1.
C7_Idempotent ==
    \A t \in Ticks :
        (t < Len(session_actions) /\ session_actions[t + 1] = session_actions[t])
        => LET s == session_states[t]
               a == session_actions[t]
           IN  /\ Returned(t + 1) = Returned(t)
               /\ (s[NAttr + NCat] = 0 \/ s[a] = 1) => Returned(t + 1)[a] = 1
               /\ s[NAttr + NCat] = 1 => Returned(t + 1)[a] = s[a]

\* an action whose bit was 0 was committed twice in a row in an active
\* state holding other bits
C7_Witness ==
    \E t \in Ticks :
        /\ t < Len(session_actions)
        /\ session_actions[t + 1] = session_actions[t]
        /\ session_states[t][NAttr + NCat] = 0
        /\ session_states[t][session_actions[t]] = 0
        /\ \E i \in DOMAIN last_state : session_states[t][i] = 1
        /\ last_state[session_actions[t]] = 1

\* ---------------------------------------------------------------- C8
\* C8: the observation of every tick is exactly the ground truth of the
\* action (0 for the end action), a flag that is 1 iff the end flag of the
\* incoming state was 1, and a one-hot vector over the actions with its 1
\* at the action; also when the session is over and the state unchanged.
C8_Observation ==
    /\ Len(observations) = Len(session_actions)
    /\ \A t \in Ticks :
          LET s == session_states[t]
              a == session_actions[t]
              o == observations[t]
          IN  /\ Len(o) = 3
              /\ o[1] = GroundTruth(a)
              /\ (a = NAttr + NCat => o[1] = 0)
              /\ o[2] \in Bit
              /\ (o[2] = 1 <=> s[NAttr + NCat] = 1)
              /\ DOMAIN o[3] = 0..(NAttr + NCat)
              /\ o[3][a] = 1
              /\ \A i \in DOMAIN o[3] : i # a => o[3][i] = 0

\* an action of ground truth 1 was observed in a session already over,
\* leaving its bit 0, and the end action was observed in an active session
C8_Witness ==
    /\ \E t \in Ticks :
          /\ session_states[t][NAttr + NCat] = 1
          /\ GroundTruth(session_actions[t]) = 1
          /\ Returned(t)[session_actions[t]] = 0
          /\ observations[t][2] = 1
    /\ \E t \in Ticks :
          /\ session_states[t][NAttr + NCat] = 0
          /\ session_actions[t] = NAttr + NCat

\* ---------------------------------------------------------------- C9
\* C9: in a session started from the all-zero state, get_whether_alive is
\* 1 at every tick up to and including the first end action and 0 at
\* every tick after it.
C9_AliveUntilEnd ==
    /\ Len(is_alive) = Len(session_actions)
    /\ \A t \in Ticks : is_alive[t] = IF EndedBefore(t) THEN 0 ELSE 1

\* the end action was first committed after another action of ground
\* truth 1 and followed by a further tick
C9_Witness ==
    \E t \in Ticks :
        /\ t > 1 /\ t < Len(session_actions)
        /\ session_actions[t] = end_action_id
        /\ ~EndedBefore(t)
        /\ GroundTruth(session_actions[1]) = 1
        /\ is_alive[t] = 1
        /\ is_alive[t + 1] = 0

\* --------------------------------------------------------------- C10
\* C10: when the session is still active at the last tick of the
\* trajectory, that tick is rewarded as an end action whatever its action:
\* end_action if a categorical action was committed strictly before it,
\* end_action_if_no_category_predicted otherwise.
C10_LastTickIsEnd ==
    (phase = "done" /\ session_states[Len(session_states)][NAttr + NCat] = 0)
    => rewards[Len(session_actions)] =
          IF CategoryBefore(Len(session_actions)) THEN rw.end_action
          ELSE rw.end_action_if_no_category_predicted

\* the only categorical action of an active session, first-time and of
\* ground truth 1, was committed at the last tick
C10_Witness ==
    /\ phase = "done"
    /\ rw = custom_rewards
    /\ Len(session_actions) > 1
    /\ session_states[Len(session_states)][NAttr + NCat] = 0
    /\ session_actions[Len(session_actions)] \in category_action_ids
    /\ GroundTruth(session_actions[Len(session_actions)]) = 1
    /\ ~TriedBefore(Len(session_actions))
    /\ ~CategoryBefore(Len(session_actions))
    /\ rewards[Len(session_actions)] = rw.end_action_if_no_category_predicted

\* --------------------------------------------------------------- C11
\* the reward of a first-time attribute action of the given ground truth
AttributeReward(a) == IF GroundTruth(a) = 1 THEN rw.attribute_positive
                      ELSE rw.attribute_negative

\* C11: every tick that is not an end step (its action is not the end
\* action and it is not the last tick), at which the session is active and
\* whose action was not tried before, is rewarded attribute_positive or
\* attribute_negative by the ground truth for an attribute action, and
\* category_positive or category_negative for a categorical action.
C11_FirstTimeReward ==
    phase = "done" =>
        \A t \in Ticks :
            ( /\ session_actions[t] # NAttr + NCat
              /\ t < Len(session_actions)
              /\ ~EndedBefore(t)
              /\ ~TriedBefore(t) )
            => rewards[t] = IF session_actions[t] < NAttr
                            THEN AttributeReward(session_actions[t])
                            ELSE CategoryReward(session_actions[t])

\* a first-time attribute action and a first-time categorical action of
\* different ground truth were rewarded before the end step
C11_Witness ==
    /\ phase = "done"
    /\ rw = custom_rewards
    /\ \E t, u \in Ticks :
          /\ t < Len(session_actions) /\ u < Len(session_actions)
          /\ ~EndedBefore(t + 1) /\ ~EndedBefore(u + 1)
          /\ ~TriedBefore(t) /\ ~TriedBefore(u)
          /\ session_actions[t] < NAttr
          /\ session_actions[u] \in category_action_ids
          /\ GroundTruth(session_actions[t]) # GroundTruth(session_actions[u])

\* --------------------------------------------------------------- C12
\* the first end step: the first end action, or the last tick without one
FirstEndStep ==
    IF \E t \in Ticks : session_actions[t] = NAttr + NCat
    THEN CHOOSE t \in Ticks : /\ session_actions[t] = NAttr + NCat
                              /\ ~EndedBefore(t)
    ELSE Len(session_actions)

\* C12: the reward of the first end step is end_action exactly when some
\* action with a categorical index was committed strictly before it,
\* whatever that action's ground truth and whether or not it was a repeat;
\* attribute actions and later categorical actions do not count.
C12_EndRewardChoice ==
    phase = "done" =>
        rewards[FirstEndStep] =
            IF \E u \in 1..(FirstEndStep - 1) :
                   session_actions[u] \in NAttr..(NAttr + NCat - 1)
            THEN rw.end_action
            ELSE rw.end_action_if_no_category_predicted

\* the end action was rewarded end_action after attribute actions and a
\* repeated categorical action of ground truth 0
C12_Witness ==
    /\ phase = "done"
    /\ rw = custom_rewards
    /\ session_actions[FirstEndStep] = end_action_id
    /\ \E t, u \in 1..(FirstEndStep - 1) :
          /\ session_actions[t] < NAttr
          /\ session_actions[u] \in category_action_ids
          /\ GroundTruth(session_actions[u]) = 0
          /\ TriedBefore(u)
    /\ rewards[FirstEndStep] = rw.end_action

\* --------------------------------------------------------------- C13
\* the action i was committed at some tick before t, no later than the
\* first end action
TakenWhileActive(i, t) ==
    \E u \in 1..(t - 1) : session_actions[u] = i /\ ~EndedBefore(u)

\* C13: in a session started from the all-zero state, bit i of the state
\* before every tick, and of the current state, is 1 iff action i was
\* committed earlier at a tick no later than the first end action; so the
\* has_tried_already value of a tick is 1 exactly when its action was
\* committed at an earlier tick at which the session was still active.
C13_StateRecordsActions ==
    phase \in {"session", "done"} =>
        /\ \A i \in DOMAIN last_state :
              /\ last_state[i] \in Bit
              /\ last_state[i] = 1
                 <=> TakenWhileActive(i, Len(session_actions) + 1)
        /\ \A t \in Ticks :
              /\ \A i \in DOMAIN session_states[t] :
                    /\ session_states[t][i] \in Bit
                    /\ session_states[t][i] = 1 <=> TakenWhileActive(i, t)
              /\ has_tried_already(session_states, session_actions)[t] \in Bit
              /\ has_tried_already(session_states, session_actions)[t] = 1
                 <=> TakenWhileActive(session_actions[t], t)

\* an action was committed before the end action and again after it, and
\* another action only after the end action
C13_Witness ==
    \E t, u, v, w \in Ticks :
        /\ t < u /\ u < v /\ u < w
        /\ session_actions[u] = end_action_id
        /\ ~EndedBefore(u)
        /\ session_actions[v] = session_actions[t]
        /\ session_actions[w] # end_action_id
        /\ ~TakenWhileActive(session_actions[w], w)
        /\ last_state[session_actions[w]] = 0
        /\ last_state[session_actions[t]] = 1

\* --------------------------------------------------------------- C14
\* the end rule at tick t
EndRuleReward(t) == IF CategoryBefore(t) THEN rw.end_action
                    ELSE rw.end_action_if_no_category_predicted

\* the intermediate rule at tick t
IntermediateRuleReward(t) ==
    IF TriedBefore(t) THEN rw.repeated_poll
    ELSE IF session_actions[t] < NAttr THEN AttributeReward(session_actions[t])
    ELSE CategoryReward(session_actions[t])

\* C14: in every rewarded trajectory the first end-action tick, or the
\* last tick when no end action is committed, is rewarded by the end rule,
\* every tick before it by the intermediate rule, and every tick after it
\* with 0.
C14_RewardShape ==
    phase = "done" =>
        /\ Len(rewards) = Len(session_actions)
        /\ FirstEndStep \in Ticks
        /\ \A t \in Ticks :
              rewards[t] = IF t < FirstEndStep THEN IntermediateRuleReward(t)
                           ELSE IF t = FirstEndStep THEN EndRuleReward(t)
                           ELSE 0

\* a trajectory with ticks before, at and after the end action was
\* rewarded, a categorical action among the ticks before
C14_Witness ==
    /\ phase = "done"
    /\ rw = custom_rewards
    /\ session_actions[FirstEndStep] = end_action_id
    /\ 1 < FirstEndStep /\ FirstEndStep < Len(session_actions)
    /\ CategoryBefore(FirstEndStep)
    /\ rewards[Len(session_actions)] = 0

\* a trajectory without end action was rewarded: its last tick is the end
\* step
C14_WitnessForcedEnd ==
    /\ phase = "done"
    /\ rw = custom_rewards
    /\ \A t \in Ticks : session_actions[t] # end_action_id
    /\ Len(session_actions) = MaxLen

\* --------------------------------------------------------------- C15
\* C15: when a trajectory is rewarded and then, extended by further ticks
\* on the same sample, rewarded again, every tick of the shorter trajectory
\* other than its last keeps its reward, and so does its last tick when
\* that tick's action is the end action or the session had already ended.
C15_PrefixRewards ==
    [][( /\ phase = "session" /\ phase' = "done"
         /\ rewards # << >>
         /\ Len(session_actions) > Len(rewards) )
       => /\ \A t \in 1..(Len(rewards) - 1) : rewards'[t] = rewards[t]
          /\ ( \/ session_actions[Len(rewards)] = NAttr + NCat
               \/ session_states[Len(rewards)][NAttr + NCat] = 1 )
             => rewards'[Len(rewards)] = rewards[Len(rewards)]
      ]_vars

\* a rewarded trajectory of several ticks, whose last tick was a forced
\* end, was extended by the end action and a further tick: evaluated on
\* the extension, the reward of the formerly last tick differs
C15_Witness ==
    /\ phase = "session"
    /\ rw = custom_rewards
    /\ Len(rewards) > 1
    /\ Len(session_actions) > Len(rewards) + 1
    /\ session_actions[Len(rewards)] # end_action_id
    /\ session_states[Len(rewards)][end_action_id] = 0
    /\ session_actions[Len(rewards) + 1] = end_action_id
    /\ get_reward(session_states, session_actions)[Len(rewards)]
          # rewards[Len(rewards)]

====
